---- MODULE Spec2Model ----
(***************************************************************************)
(* A model of data/iwslt_loader.py: the IWSLT character-level dataset      *)
(* (vocabulary construction, pair filter, per-example padding, indexed     *)
(* access) and the PadCollate batch collation.                             *)
(*                                                                         *)
(* Characters are their Unicode code points, strings are sequences of      *)
(* code points, Python lists are sequences, dicts are functions.           *)
(***************************************************************************)
EXTENDS Integers, Sequences, FiniteSets, TLC

VARIABLES
    raw_en,     \* text of the source file of the split, as f.read() returns it
    raw_de,     \* text of the target file of the split
    cfg,        \* constructor arguments [a100, b2, use_str]: a = a100/100, b = b2/2
    ds,         \* the IWSLT instances, by their prepad argument: [pc, labelers, data]
    ret,        \* outcome of the last __getitem__ / pad_src_tgt call
    examples,   \* the example pairs a batch is made of, as produced before collation
    batch,      \* the list object handed to pad_collate (rewritten in place)
    dims,       \* PadCollate.dims
    pad_vals,   \* PadCollate.pad_vals
    size_none,  \* what Tensor.size(None) does in the installed tensor library
    out         \* outcome of the last pad_collate call

vars == <<raw_en, raw_de, cfg, ds, ret, examples, batch, dims, pad_vals, size_none, out>>

dsVars == <<raw_en, raw_de, cfg, ds, ret>>
collateVars == <<examples, batch, dims, pad_vals, size_none, out>>

-----------------------------------------------------------------------------
(* Bounds of the explored inputs *)

\* longest raw text of the free-text corpora
MaxText == 3
\* longest line of the one-line corpora
MaxLen == 20
\* longest line of the corpora of several lines
MaxShort == 3
\* most lines of a corpus
MaxLines == 2
\* largest magnitude of an index passed to __getitem__
MaxIndex == 3
\* most examples in a batch
MaxBatch == 2
\* longest example tensor along its last axis
MaxSeq == 2

-----------------------------------------------------------------------------
(* Program constants *)

\* "\n", the separator of raw.split
NL == 10
\* IWSLT.END
END == 0
\* IWSLT.UNK, the character U+263A
UNK == 9786
\* the length limit of the pair filter
MaxLineLen == 1000

\* IWSLT.REPLACE: (character, replacement string) in the order applied
REPLACE ==
    << <<9, <<32>>>>, <<8212, <<8211>>>>, <<8213, <<8211>>>>,
       <<8722, <<8211>>>>, <<8203, <<>>>>, <<160, <<32>>>> >>

-----------------------------------------------------------------------------
(* Strings *)

Range(s) == {s[i] : i \in DOMAIN s}

\* str.replace(s, r) for a one-character s
RECURSIVE StrReplace(_, _, _)
StrReplace(raw, s, r) ==
    IF raw = <<>> THEN <<>>
    ELSE (IF Head(raw) = s THEN r ELSE <<Head(raw)>>) \o StrReplace(Tail(raw), s, r)

\* for s, r in self.REPLACE: raw = raw.replace(s, r)
RECURSIVE NormalizeFrom(_, _)
NormalizeFrom(raw, k) ==
    IF k > Len(REPLACE) THEN raw
    ELSE NormalizeFrom(StrReplace(raw, REPLACE[k][1], REPLACE[k][2]), k + 1)

Normalize(raw) == NormalizeFrom(raw, 1)

\* raw.split("\n"): the pieces between separators, empty pieces included
RECURSIVE SplitFrom(_, _)
SplitFrom(raw, cur) ==
    IF raw = <<>> THEN <<cur>>
    ELSE IF Head(raw) = NL THEN <<cur>> \o SplitFrom(Tail(raw), <<>>)
    ELSE SplitFrom(Tail(raw), Append(cur, Head(raw)))

Split(raw) == SplitFrom(raw, <<>>)

-----------------------------------------------------------------------------
(* Vocabulary: IWSLT.__init__, lines 117-119 and 125-127 *)

\* sorted(list(set(raw))) then OrderedDict([(k, i) for i, k in enumerate(..)]):
\* a character's index is the number of distinct smaller characters
SortedIndex(uniq, c) == Cardinality({d \in uniq : d < c})

\* uniq.update({self.UNK: len(uniq)}): sets (or overwrites) the entry of UNK
BuildLabeler(raw) ==
    LET uniq == Range(raw)
    IN  [c \in uniq \cup {UNK} |->
            IF c = UNK THEN Cardinality(uniq) ELSE SortedIndex(uniq, c)]

\* len(labeler)
LabelerLen(labeler) == Cardinality(DOMAIN labeler)

-----------------------------------------------------------------------------
(* Arithmetic of the padding formula and of the filter.                    *)
(*                                                                         *)
(* The constructor's a and b are floats; here a = a100/100 and b = b2/2.   *)
(* Of the values of ARaw only 1.2 is not a binary fraction: the double     *)
(* nearest to it lies below it, a - 1. is 0.19999999999999996, and n times *)
(* it stays below n/5 for every n in 1..999. Every other product and sum   *)
(* of the formula is exact in double arithmetic for these values.          *)
(***************************************************************************)

\* the values of the argument a
ARaw == {50, 100, 120, 150, 200}
\* the values of the argument b, in halves
BRaw == {-2, -1, 0, 1, 2}

\* whether the double a - 1. (self.a, line 106) lies below the real a - 1:
\* for a = 1.2 alone among the values of ARaw
SelfABelow(a100) == a100 = 120

\* len(src) * self.a + self.b in units of 1/200, without the rounding error
PadX200(n, c) == 2 * n * (c.a100 - 100) + 100 * c.b2

\* IntTrunc as if every double were the real number it stands for
IntTruncOfReal(x200, below) ==
    IF x200 > 0 THEN x200 \div 200 ELSE -((-x200) \div 200)

\* int(x): truncation toward zero of the double that lies just below x200/200
\* when below holds, and is x200/200 otherwise
IntTrunc(x200, below) ==
    IF x200 > 0
    THEN IF below /\ x200 % 200 = 0 THEN (x200 \div 200) - 1 ELSE x200 \div 200
    ELSE -((-x200) \div 200)

\* int(len(src) * self.a + self.b), lines 169 and 178
PadCount(n, c) == IntTrunc(PadX200(n, c), n > 0 /\ SelfABelow(c.a100))

\* [v] * k: a list of k copies of v, empty for k <= 0
Repeat(v, k) == [i \in 1..k |-> v]

\* RatioLeq with the bound a in place of a*.98
RatioLeqNoMargin(ld, le, a100) == ld * 100 <= a100 * le

\* len(d) / len(e) <= a*.98 for len(e) > 0 (true division; the comparison of
\* the doubles agrees with the comparison of the rationals for every a of ARaw
\* and all lengths below 1000)
RatioLeq(ld, le, a100) == ld * 10000 <= a100 * 98 * le

\* len(d) / len(e) > 0.3 for len(e) > 0
RatioGt(ld, le) == 10 * ld > 3 * le

\* Keep without the lower bound on the ratio
KeepNoLowerBound(e, d, a100) ==
    /\ Len(e) # 0
    /\ Len(e) < MaxLineLen
    /\ Len(d) < MaxLineLen
    /\ RatioLeq(Len(d), Len(e), a100)

\* the condition of the list comprehensions, lines 135-137 and 140-142
Keep(e, d, a100) ==
    /\ Len(e) # 0
    /\ Len(e) < MaxLineLen
    /\ Len(d) < MaxLineLen
    /\ RatioLeq(Len(d), Len(e), a100)
    /\ RatioGt(Len(d), Len(e))

\* zip(english, deutsch) for lists of equal length
Zip(english, deutsch) == [k \in 1..Len(english) |-> <<english[k], deutsch[k]>>]

KeepPair(pair, a100) == Keep(pair[1], pair[2], a100)

\* [(e, d) for e, d in zip(english, deutsch) if <condition>]
RECURSIVE Filter(_, _)
Filter(pairs, a100) ==
    IF pairs = <<>> THEN <<>>
    ELSE (IF KeepPair(Head(pairs), a100) THEN <<Head(pairs)>> ELSE <<>>)
         \o Filter(Tail(pairs), a100)

-----------------------------------------------------------------------------
(* IWSLT.pad_src_tgt *)

\* [labeler[c] for c in line]
Encode(line, labeler) == [i \in 1..Len(line) |-> labeler[line[i]]]

\* the pad index, len(labeler)-1
PadIndex(labeler) == LabelerLen(labeler) - 1

\* lines 176-178
PadSource(src, labeler, c) ==
    Encode(src, labeler) \o <<END>> \o Repeat(PadIndex(labeler), PadCount(Len(src), c))

\* PadTarget that cuts the target to the length of the padded source
PadTargetClamped(tgt, labeler, src_pad) ==
    LET tgt_pad == Encode(tgt, labeler) \o <<END>>
    IN  IF Len(src_pad) > Len(tgt_pad)
        THEN tgt_pad \o Repeat(PadIndex(labeler), Len(src_pad) - Len(tgt_pad))
        ELSE SubSeq(tgt_pad, 1, Len(src_pad))

\* lines 180-183
PadTarget(tgt, labeler, src_pad) ==
    LET tgt_pad == Encode(tgt, labeler) \o <<END>>
    IN  IF Len(src_pad) > Len(tgt_pad)
        THEN tgt_pad \o Repeat(PadIndex(labeler), Len(src_pad) - Len(tgt_pad))
        ELSE tgt_pad

\* pad_src_tgt: with use_str the first statement adds a list to the str src,
\* which raises TypeError; otherwise the pair of padded index lists
pad_src_tgt(src, tgt, labelers, c) ==
    IF c.use_str
    THEN [status |-> "TypeError", src |-> <<>>, tgt |-> <<>>]
    ELSE LET src_pad == PadSource(src, labelers[1], c)
         IN  [status |-> "ok", src |-> src_pad,
              tgt |-> PadTarget(tgt, labelers[2], src_pad)]

-----------------------------------------------------------------------------
(* IWSLT.__init__ for the one split of SPLITS *)

NotBuilt == [pc |-> "new", labelers |-> <<>>, data |-> <<>>]

Raised(exc) == [pc |-> exc, labelers |-> <<>>, data |-> <<>>]

\* the lines of a file after the replacements, lines 114-116/120 and 122-124/128
LinesOf(raw) == Split(Normalize(raw))

\* (uniq_en, uniq_de)
LabelersOf(ren, rde) == <<BuildLabeler(Normalize(ren)), BuildLabeler(Normalize(rde))>>

\* the pairs that pass the filter, in line order
KeptPairs(ren, rde, c) == Filter(Zip(LinesOf(ren), LinesOf(rde)), c.a100)

\* the list comprehension of the prepad branch, lines 133-137: pad_src_tgt
\* is called for each kept pair and its exception, if any, leaves __init__
PrepadData(kept, labelers, c) ==
    [k \in 1..Len(kept) |->
        LET r == pad_src_tgt(kept[k][1], kept[k][2], labelers, c)
        IN  <<r.src, r.tgt>>]

\* Constructed whose second copy of the filter condition (lines 140-142) has
\* lost the lower bound on the ratio
ConstructedDrift(ren, rde, c, prepad) ==
    LET english == LinesOf(ren)
        deutsch == LinesOf(rde)
        labelers == LabelersOf(ren, rde)
    IN  IF Len(english) # Len(deutsch) THEN Raised("AssertionError")
        ELSE LET kept == Filter(Zip(english, deutsch), c.a100)
                 lazy == SelectSeq(Zip(english, deutsch),
                                   LAMBDA pr : KeepNoLowerBound(pr[1], pr[2], c.a100))
             IN  IF prepad
                 THEN IF kept # <<>> /\ c.use_str THEN Raised("TypeError")
                      ELSE [pc |-> "built", labelers |-> labelers,
                            data |-> PrepadData(kept, labelers, c)]
                 ELSE [pc |-> "built", labelers |-> labelers, data |-> lazy]

\* the instance __init__ leaves, or the exception it raises
Constructed(ren, rde, c, prepad) ==
    LET english == LinesOf(ren)
        deutsch == LinesOf(rde)
        labelers == LabelersOf(ren, rde)
    IN  IF Len(english) # Len(deutsch) THEN Raised("AssertionError")
        ELSE LET kept == Filter(Zip(english, deutsch), c.a100)
             IN  IF prepad
                 THEN IF kept # <<>> /\ c.use_str THEN Raised("TypeError")
                      ELSE [pc |-> "built", labelers |-> labelers,
                            data |-> PrepadData(kept, labelers, c)]
                 ELSE [pc |-> "built", labelers |-> labelers, data |-> kept]

\* IWSLT(root, prepad=prepad, use_str=.., a=.., b=..)
Construct(prepad) ==
    /\ ds[prepad].pc = "new"
    /\ ds' = [ds EXCEPT ![prepad] = Constructed(raw_en, raw_de, cfg, prepad)]
    /\ UNCHANGED <<raw_en, raw_de, cfg, ret>>
    /\ UNCHANGED collateVars

-----------------------------------------------------------------------------
(* IWSLT.__getitem__ and IWSLT.__len__ *)

NoRet == [op |-> "none", inst |-> FALSE, index |-> 0, status |-> "none",
          src |-> <<>>, tgt |-> <<>>]

\* len(self.data[self.split])
DsLen(d) == Len(d.data)

\* ListIndexOk that accepts no negative index
ListIndexOkNonNegative(n, index) == 0 <= index /\ index < n

\* list indexing: position index, counted from the end when negative
ListIndexOk(n, index) == -n <= index /\ index < n

ListPos(n, index) == IF index < 0 THEN n + index + 1 ELSE index + 1

\* the outcome of instance[index] for the instance d built with prepad
GetItemOf(d, prepad, index, c) ==
    IF ~ListIndexOk(DsLen(d), index)
    THEN [status |-> "IndexError", src |-> <<>>, tgt |-> <<>>]
    ELSE LET item == d.data[ListPos(DsLen(d), index)]
             r == IF ~prepad
                  THEN pad_src_tgt(item[1], item[2], d.labelers, c)
                  ELSE [status |-> "ok", src |-> item[1], tgt |-> item[2]]
         IN  IF r.status # "ok" THEN r
             ELSE IF ~c.use_str
                  THEN [status |-> "ok", src |-> <<r.src>>, tgt |-> r.tgt]
                  ELSE r

GetItem(prepad, index) ==
    /\ ds[prepad].pc = "built"
    /\ ret' = [op |-> "getitem", inst |-> prepad, index |-> index]
              @@ GetItemOf(ds[prepad], prepad, index, cfg)
    /\ UNCHANGED <<raw_en, raw_de, cfg, ds>>
    /\ UNCHANGED collateVars

-----------------------------------------------------------------------------
(* pad_src_tgt called on a pair of lines of the corpus, filtered or not *)

PadCall(k) ==
    /\ k <= Len(LinesOf(raw_en)) /\ k <= Len(LinesOf(raw_de))
    /\ ret' = [op |-> "pad", inst |-> FALSE, index |-> k]
              @@ pad_src_tgt(LinesOf(raw_en)[k], LinesOf(raw_de)[k],
                             LabelersOf(raw_en, raw_de), cfg)
    /\ UNCHANGED <<raw_en, raw_de, cfg, ds>>
    /\ UNCHANGED collateVars

-----------------------------------------------------------------------------
(* Tensors: [rank, v], v a sequence of numbers (rank 1) or a sequence of   *)
(* rows of equal length (rank 2). An axis selector is [none, axis]: None,  *)
(* or the integer axis, negative ones counting from the last axis.         *)
(***************************************************************************)

NoneDim == [none |-> TRUE, axis |-> 0]

RealDim(k) == [none |-> FALSE, axis |-> k]

\* vec.size()
TShape(t) ==
    IF t.rank = 1 THEN <<Len(t.v)>>
    ELSE <<Len(t.v), IF t.v = <<>> THEN 0 ELSE Len(t.v[1])>>

\* the position in the shape that axis d names
AxisOf(t, d) == (IF d < 0 THEN d + t.rank ELSE d) + 1

\* vec.size(d) for an integer d
TSize(t, d) == TShape(t)[AxisOf(t, d)]

\* vec.new(*shape).fill_(val)
TFull(shape, val) ==
    IF Len(shape) = 1
    THEN [rank |-> 1, v |-> [j \in 1..shape[1] |-> val]]
    ELSE [rank |-> 2, v |-> [i \in 1..shape[1] |-> [j \in 1..shape[2] |-> val]]]

\* cat([t, u], dim): u after t along the axis at position k of the shape
TCat(t, u, k) ==
    IF t.rank = 1 \/ k = 1
    THEN [rank |-> t.rank, v |-> t.v \o u.v]
    ELSE [rank |-> 2, v |-> [i \in 1..Len(t.v) |-> t.v[i] \o u.v[i]]]

\* _pad_tensor that puts the fill before the content
_pad_tensor_front(vec, pad, d, val) ==
    IF TSize(vec, d) = pad THEN vec
    ELSE LET pad_size == [TShape(vec) EXCEPT ![AxisOf(vec, d)] = pad - TSize(vec, d)]
         IN  TCat(TFull(pad_size, val), vec, AxisOf(vec, d))

\* _pad_tensor for an integer dim
_pad_tensor(vec, pad, d, val) ==
    IF TSize(vec, d) = pad THEN vec
    ELSE LET pad_size == [TShape(vec) EXCEPT ![AxisOf(vec, d)] = pad - TSize(vec, d)]
         IN  TCat(vec, TFull(pad_size, val), AxisOf(vec, d))

\* max of a list of numbers
MaxOf(S) == CHOOSE m \in S : \A k \in S : k <= m

MinOf(S) == CHOOSE m \in S : \A k \in S : m <= k

\* tuple comparison, as max() compares the torch.Size values
ShapeLess(a, b) ==
    \E k \in 1..Len(a) :
        /\ \A j \in 1..(k - 1) : a[j] = b[j]
        /\ a[k] < b[k]

MaxShape(S) == CHOOSE m \in S : \A k \in S : ~ShapeLess(m, k)

\* stack(list, dim=0) of tensors of one shape
Stack(ts) == [rank |-> ts[1].rank + 1, v |-> [i \in 1..Len(ts) |-> ts[i].v]]

SameShapes(ts) == \A i, j \in 1..Len(ts) : TShape(ts[i]) = TShape(ts[j])

-----------------------------------------------------------------------------
(* PadCollate.pad_collate *)

\* _pad_tensor with y's selector of the batch, as the loop calls it (line
\* 61) also when the selector is None: vec.size(None) == pad compares the
\* whole sizes, and a difference reaches pad_size[None], a TypeError
PadYRaises(y, sel, max_len_y) == sel.none /\ TShape(y) # max_len_y

PadY(y, sel, max_len_y, val) ==
    IF sel.none THEN y ELSE _pad_tensor(y, max_len_y, sel.axis, val)

\* line 59, under the test of line 58
PadX(x, sel, max_len_x, val) ==
    IF ~sel.none THEN _pad_tensor(x, max_len_x, sel.axis, val) ELSE x

\* lines 54 and 55: the list of sizes and its maximum
MaxLenOf(ts, sel) ==
    IF sel.none THEN MaxShape({TShape(ts[i]) : i \in 1..Len(ts)})
    ELSE MaxOf({TSize(ts[i], sel.axis) : i \in 1..Len(ts)})

\* the outcome of pad_collate(b): the status, the list b as it is left, and
\* the two stacked tensors
pad_collate(b, ds2, vals, sn) ==
    LET xsOf == [i \in 1..Len(b) |-> b[i][1]]
        ysOf == [i \in 1..Len(b) |-> b[i][2]]
        failed(exc, left) == [status |-> exc, batch |-> left, xs |-> <<>>, ys |-> <<>>]
    IN  IF b = <<>> THEN failed("ValueError", b)
        ELSE IF (ds2[1].none \/ ds2[2].none) /\ sn = "TypeError" THEN failed("TypeError", b)
        ELSE
        LET max_len_x == MaxLenOf(xsOf, ds2[1])
            max_len_y == MaxLenOf(ysOf, ds2[2])
            padded == [i \in 1..Len(b) |->
                          <<PadX(b[i][1], ds2[1], max_len_x, vals[1]),
                            IF Len(ds2) = 2
                            THEN PadY(b[i][2], ds2[2], max_len_y, vals[2])
                            ELSE b[i][2]>>]
            raising == {i \in 1..Len(b) :
                           Len(ds2) = 2 /\ PadYRaises(b[i][2], ds2[2], max_len_y)}
        IN  IF raising # {}
            THEN failed("TypeError",
                        [i \in 1..Len(b) |-> IF i < MinOf(raising)
                                             THEN padded[i] ELSE b[i]])
            ELSE LET px == [i \in 1..Len(b) |-> padded[i][1]]
                     py == [i \in 1..Len(b) |-> padded[i][2]]
                 IN  IF ~SameShapes(px) \/ ~SameShapes(py)
                     THEN failed("RuntimeError", padded)
                     ELSE [status |-> "ok", batch |-> padded,
                           xs |-> Stack(px), ys |-> Stack(py)]

\* collate(batch) on the list object batch
PadCollateCall ==
    /\ LET r == pad_collate(batch, dims, pad_vals, size_none)
       IN  /\ batch' = r.batch
           /\ out' = [status |-> r.status, xs |-> r.xs, ys |-> r.ys]
    /\ UNCHANGED <<examples, dims, pad_vals, size_none>>
    /\ UNCHANGED dsVars

-----------------------------------------------------------------------------
(* Corpora and constructor arguments explored *)

\* all strings over alphabet of length at most n
Texts(alphabet, n) == UNION {[1..k -> alphabet] : k \in 0..n}

\* a line of n characters: pattern repeated
Line(n, pattern) == [i \in 1..n |-> pattern[((i - 1) % Len(pattern)) + 1]]

Configs == [a100 : ARaw, b2 : BRaw, use_str : BOOLEAN]

\* the default arguments a=1.2, b=0, use_str=False
DefaultConfig == [a100 |-> 120, b2 |-> 0, use_str |-> FALSE]

NoCollate ==
    /\ examples = <<>>
    /\ batch = <<>>
    /\ dims = <<RealDim(-1), RealDim(-1)>>
    /\ pad_vals = <<0, 0>>
    /\ size_none = "TypeError"
    /\ out = [status |-> "none", xs |-> <<>>, ys |-> <<>>]

NoDataset ==
    /\ raw_en = <<>>
    /\ raw_de = <<>>
    /\ cfg = DefaultConfig
    /\ ds = [p \in BOOLEAN |-> NotBuilt]
    /\ ret = NoRet

\* the characters of the free-text source corpora: a control character below
\* "\n", tab, "\n", "a", UNK and a character above UNK
AlphaEn == {5, 9, NL, 97, UNK, 65281}
\* the characters of the free-text target corpora
AlphaDe == {NL, 98}

PatternEn == <<97, 98>>
PatternDe == <<99, 98, 100>>

\* "\n".join(lines)
RECURSIVE Join(_)
Join(lines) ==
    IF Len(lines) = 1 THEN lines[1]
    ELSE lines[1] \o <<NL>> \o Join(Tail(lines))

\* the files of at most MaxLines lines, each of at most MaxShort characters
ShortFiles(pattern) ==
    {Join([k \in 1..Len(lens) |-> Line(lens[k], pattern)]) :
        lens \in UNION {[1..n -> 0..MaxShort] : n \in 1..MaxLines}}

\* the files of one line of at most n characters
OneLineFiles(pattern, n) == {Line(k, pattern) : k \in 0..n}

\* the files of one line of at most MaxShort characters, alone or followed by
\* the line last
TailedFiles(pattern, last) ==
    OneLineFiles(pattern, MaxShort)
    \cup {file \o <<NL>> \o last : file \in OneLineFiles(pattern, MaxShort)}

InitDataset(files_en, files_de, configs) ==
    /\ raw_en \in files_en
    /\ raw_de \in files_de
    /\ cfg \in configs
    /\ ds = [p \in BOOLEAN |-> NotBuilt]
    /\ ret = NoRet
    /\ NoCollate

NextConstruct == \E prepad \in BOOLEAN : Construct(prepad)

NextDataset ==
    \/ \E prepad \in BOOLEAN : Construct(prepad)
    \/ \E prepad \in BOOLEAN, index \in -MaxIndex..MaxIndex : GetItem(prepad, index)

\* corpora of one or two lines, every configuration; both instances are
\* constructed and indexed
Init ==
    InitDataset(TailedFiles(PatternEn, <<98, 97>>), TailedFiles(PatternDe, <<100, 99>>),
                Configs)

Next == NextDataset

Spec == Init /\ [][Next]_vars

\* corpora of several short lines, index mode, construction only
InitFilter ==
    InitDataset(ShortFiles(PatternEn), ShortFiles(PatternDe),
                {c \in Configs : c.b2 = 0 /\ ~c.use_str})

SpecFilter == InitFilter /\ [][NextConstruct]_vars

\* free-text corpora over AlphaEn and AlphaDe, default arguments,
\* construction only
InitVocab ==
    InitDataset(Texts(AlphaEn, MaxText), Texts(AlphaDe, MaxText), {DefaultConfig})

SpecVocab == InitVocab /\ [][NextConstruct]_vars

\* one-line corpora, default arguments
InitDefault ==
    InitDataset(OneLineFiles(PatternEn, MaxLen), OneLineFiles(PatternDe, MaxLen),
                {DefaultConfig})

SpecDefault == InitDefault /\ [][NextDataset]_vars

\* pad_src_tgt on the line pairs of one-line corpora, every configuration
InitPad ==
    InitDataset(OneLineFiles(PatternEn, MaxLen), OneLineFiles(PatternDe, MaxLen),
                Configs)

NextPad == \E k \in 1..MaxLines : PadCall(k)

SpecPad == InitPad /\ [][NextPad]_vars

\* example i of a batch: a source tensor of shape (1, lx) and a target tensor
\* of shape (ly), as __getitem__ returns them, holding the values 10i+1, ...
ExampleOf(i, lx, ly) ==
    << [rank |-> 2, v |-> << [j \in 1..lx |-> 10 * i + j] >>],
       [rank |-> 1, v |-> [j \in 1..ly |-> 10 * i + j]] >>

Batches ==
    {[i \in 1..Len(ls) |-> ExampleOf(i, ls[i][1], ls[i][2])] :
        ls \in UNION {[1..n -> (0..MaxSeq) \X (0..MaxSeq)] : n \in 1..MaxBatch}}

\* the selectors of the source tensor and of the target tensor
DimsX == {NoneDim, RealDim(-1), RealDim(0), RealDim(1)}
DimsY == {NoneDim, RealDim(-1), RealDim(0)}

InitCollate ==
    /\ examples \in Batches
    /\ batch = examples
    /\ dims \in DimsX \X DimsY
    /\ pad_vals \in {<<0, 0>>, <<7, 9>>}
    /\ size_none \in {"TypeError", "Size"}
    /\ out = [status |-> "none", xs |-> <<>>, ys |-> <<>>]
    /\ NoDataset

NextCollate == PadCollateCall

SpecCollate == InitCollate /\ [][NextCollate]_vars

-----------------------------------------------------------------------------
(* The vocabulary *)

VocabularyOk(labeler, text) ==
    /\ \A c1, c2 \in DOMAIN labeler : labeler[c1] = labeler[c2] => c1 = c2
    /\ LabelerLen(labeler) = Cardinality(Range(text)) + 1
    /\ labeler[UNK] = LabelerLen(labeler) - 1
    /\ PadIndex(labeler) = LabelerLen(labeler) - 1
    /\ \A c \in Range(text) \ {UNK} : labeler[c] # PadIndex(labeler)

\* C1: for every normalized corpus text, also one that contains the UNK
\* character, the vocabulary is injective, has exactly one entry more than
\* the text has distinct characters, and maps UNK to vocab_size - 1, which is
\* the pad index len(labeler) - 1 and the index of no character of the text.
C1_VocabularyLayout ==
    \A p \in BOOLEAN :
        ds[p].pc = "built" =>
            /\ VocabularyOk(ds[p].labelers[1], Normalize(raw_en))
            /\ VocabularyOk(ds[p].labelers[2], Normalize(raw_de))

\* C9: in index mode no character of a retained source or target line is
\* encoded to END = 0: in each encoded sequence the first 0 is the end marker
\* at position len(line).
C9_EndMarkerIsFirstZero ==
    (ds[TRUE].pc = "built" /\ ~cfg.use_str) =>
        LET kept == KeptPairs(raw_en, raw_de, cfg)
        IN  \A k \in 1..DsLen(ds[TRUE]) : \A side \in 1..2 :
                LET enc == ds[TRUE].data[k][side]
                    n == Len(kept[k][side])
                IN  /\ enc[n + 1] = END
                    /\ \A i \in 1..n : enc[i] # END

-----------------------------------------------------------------------------
(* The pair filter *)

\* the condition as the specification states it
ClaimKeeps(e, d, a100) ==
    /\ Len(e) # 0
    /\ Len(e) < 1000
    /\ Len(d) < 1000
    /\ 3 * Len(e) < 10 * Len(d)
    /\ 10000 * Len(d) <= 98 * a100 * Len(e)

\* the numbers of the line pairs that satisfy it
ClaimKeptLines ==
    {k \in 1..Len(LinesOf(raw_en)) :
        ClaimKeeps(LinesOf(raw_en)[k], LinesOf(raw_de)[k], cfg.a100)}

\* the j-th smallest element of a set of numbers
NthOf(S, j) == CHOOSE k \in S : Cardinality({i \in S : i <= k}) = j

-----------------------------------------------------------------------------
(* Indexed access *)

C8_EagerEqualsLazy ==
    (ds[TRUE].pc = "built" /\ ds[FALSE].pc = "built") =>
        /\ DsLen(ds[TRUE]) = DsLen(ds[FALSE])
        /\ \A i \in 0..(DsLen(ds[TRUE]) - 1) :
               GetItemOf(ds[TRUE], TRUE, i, cfg) = GetItemOf(ds[FALSE], FALSE, i, cfg)
        /\ (ret.op = "getitem" /\ 0 <= ret.index /\ ret.index < DsLen(ds[TRUE])) =>
               LET other == GetItemOf(ds[~ret.inst], ~ret.inst, ret.index, cfg)
               IN  /\ ret.status = other.status
                   /\ ret.src = other.src
                   /\ ret.tgt = other.tgt

\* both instances hold two items and the lazy one returned a padded pair
C8_Witness ==
    /\ ds[TRUE].pc = "built"
    /\ ds[FALSE].pc = "built"
    /\ DsLen(ds[FALSE]) = 2
    /\ ret.op = "getitem"
    /\ ~ret.inst
    /\ ret.index = 1
    /\ ret.status = "ok"
    /\ Len(ret.src[1]) > Len(ds[FALSE].data[2][1]) + 1

\* C10: with the defaults a=1.2, b=0 every pair that passes the filter is
\* padded to a source and a target of equal length: len(target) + 1 never
\* exceeds len(source) + 1 + int(len(source)*(a-1) + b).
C10_DefaultsPadToEqualLength ==
    cfg = DefaultConfig =>
        /\ ds[TRUE].pc = "built" =>
               LET kept == KeptPairs(raw_en, raw_de, cfg)
               IN  \A j \in 1..DsLen(ds[TRUE]) :
                       /\ Len(ds[TRUE].data[j][1]) = Len(ds[TRUE].data[j][2])
                       /\ Len(kept[j][2]) + 1 <= Len(ds[TRUE].data[j][1])
        /\ (ret.op = "getitem" /\ ret.status = "ok") =>
               Len(ret.src[1]) = Len(ret.tgt)

\* the pair of 10 and 11 characters, which leaves the target no room to spare
C10_Witness ==
    /\ cfg = DefaultConfig
    /\ ds[TRUE].pc = "built"
    /\ DsLen(ds[TRUE]) = 1
    /\ Len(LinesOf(raw_en)[1]) = 10
    /\ Len(LinesOf(raw_de)[1]) = 11
    /\ Len(ds[TRUE].data[1][1]) = 12
    /\ Len(ds[TRUE].data[1][2]) = 12

-----------------------------------------------------------------------------
(* The padding formula *)

\* the line pair and the value len(source)*(a_raw-1) + b, in units of 1/200,
\* of the last pad_src_tgt call
PadCallSrc == LinesOf(raw_en)[ret.index]
PadCallTgt == LinesOf(raw_de)[ret.index]
ClaimX200 == 2 * Len(PadCallSrc) * (cfg.a100 - 100) + 100 * cfg.b2

Max0(k) == IF k > 0 THEN k ELSE 0

\* floor of the double the code computes: for a_raw = 1.2 and a source that is
\* not empty, of a number just below x200/200
FloorAsComputed(x200) ==
    IF cfg.a100 = 120 /\ Len(PadCallSrc) > 0 /\ x200 % 200 = 0
    THEN (x200 \div 200) - 1
    ELSE x200 \div 200

\* C2: in index mode, for every source length and all a_raw and b, also those
\* that make len*(a_raw-1)+b fractional or negative,
\* len(padded_source) = len(source) + 1 + floor(len(source)*(a_raw-1) + b).
C2_SourceLengthFloor ==
    (ret.op = "pad" /\ ret.status = "ok") =>
        Len(ret.src) = Len(PadCallSrc) + 1 + (ClaimX200 \div 200)

\* C2, amended: len(padded_source) = len(source) + 1 + max(0, floor(x)),
\* x being len(source)*(a_raw-1.) + b as the code computes it in doubles.
C2_SourceLengthAsComputed ==
    (ret.op = "pad" /\ ret.status = "ok") =>
        Len(ret.src) = Len(PadCallSrc) + 1 + Max0(FloorAsComputed(ClaimX200))

\* a call whose len*(a_raw-1)+b is negative and fractional
C2_Witness ==
    /\ ret.op = "pad"
    /\ ret.status = "ok"
    /\ ClaimX200 < 0
    /\ ClaimX200 % 200 # 0
    /\ Len(PadCallSrc) = 3
    /\ Len(ret.src) = 4

\* C3: the padded target begins with the encoded target followed by one end
\* marker; its length is that of the padded source when len(target) + 1 is
\* shorter than the padded source and len(target) + 1 otherwise.
C3_TargetNeverTruncated ==
    (ret.op = "pad" /\ ret.status = "ok") =>
        LET labeler == LabelersOf(raw_en, raw_de)[2]
            m == Len(PadCallTgt)
        IN  /\ Len(ret.tgt) >= m + 1
            /\ \A i \in 1..m : ret.tgt[i] = labeler[PadCallTgt[i]]
            /\ ret.tgt[m + 1] = END
            /\ Len(ret.tgt) = IF m + 1 < Len(ret.src) THEN Len(ret.src) ELSE m + 1

\* "hi" against "hey" under the defaults: the padded target is longer than
\* the padded source
C3_Witness ==
    /\ ret.op = "pad"
    /\ ret.status = "ok"
    /\ cfg = DefaultConfig
    /\ Len(PadCallSrc) = 2
    /\ Len(PadCallTgt) = 3
    /\ Len(ret.src) = 3
    /\ Len(ret.tgt) = 4

-----------------------------------------------------------------------------
(* Batch collation *)

ExampleXs == [i \in 1..Len(examples) |-> examples[i][1]]
ExampleYs == [i \in 1..Len(examples) |-> examples[i][2]]

RealSelectors == ~dims[1].none /\ ~dims[2].none

\* slice i of a stacked tensor
SliceOf(stacked, i) == [rank |-> stacked.rank - 1, v |-> stacked.v[i]]

\* padded holds orig in its leading positions along the axis at position k
\* of the shape and fill in all the others
ContentThenFill(orig, padded, k, fill) ==
    IF orig.rank = 1
    THEN \A j \in 1..Len(padded.v) :
             padded.v[j] = IF j <= Len(orig.v) THEN orig.v[j] ELSE fill
    ELSE IF k = 2
    THEN /\ Len(padded.v) = Len(orig.v)
         /\ \A r \in 1..Len(padded.v) : \A j \in 1..Len(padded.v[r]) :
                padded.v[r][j] = IF j <= Len(orig.v[r]) THEN orig.v[r][j] ELSE fill
    ELSE \A r \in 1..Len(padded.v) :
             IF r <= Len(orig.v) THEN padded.v[r] = orig.v[r]
             ELSE \A j \in 1..Len(padded.v[r]) : padded.v[r][j] = fill

\* what the claim says of one of the two output tensors
CollatedOk(origs, stacked, sel, fill) ==
    /\ Len(stacked.v) = Len(origs)
    /\ \A i \in 1..Len(origs) :
           /\ TSize(SliceOf(stacked, i), sel.axis)
                = MaxOf({TSize(origs[j], sel.axis) : j \in 1..Len(origs)})
           /\ ContentThenFill(origs[i], SliceOf(stacked, i),
                              AxisOf(origs[i], sel.axis), fill)

\* the examples have one size along every axis but the selected one
OtherAxesAgree(ts, sel) ==
    \A i, j \in 1..Len(ts) : \A k \in 1..ts[i].rank :
        k # AxisOf(ts[i], sel.axis) => TShape(ts[i])[k] = TShape(ts[j])[k]

\* C5: for every non-empty batch and real axis selectors each output tensor
\* has the batch size as leading dimension and the largest example size along
\* the padded axis; slice i holds example i's content up to its own length and
\* the tensor's fill value beyond it.
C5_CollatePadsToBatchMax ==
    (out.status # "none" /\ RealSelectors) =>
        /\ out.status = "ok"
        /\ CollatedOk(ExampleXs, out.xs, dims[1], pad_vals[1])
        /\ CollatedOk(ExampleYs, out.ys, dims[2], pad_vals[2])

\* C5, amended: the same, for the batches whose examples agree in size along
\* every axis other than the selected one (any other batch fails in stack).
C5_CollatePadsAgreeingBatches ==
    (out.status # "none" /\ RealSelectors) =>
        /\ out.status = "ok" <=>
               (OtherAxesAgree(ExampleXs, dims[1]) /\ OtherAxesAgree(ExampleYs, dims[2]))
        /\ out.status = "ok" =>
               /\ CollatedOk(ExampleXs, out.xs, dims[1], pad_vals[1])
               /\ CollatedOk(ExampleYs, out.ys, dims[2], pad_vals[2])
        /\ out.status # "ok" => out.status = "RuntimeError"

\* two examples, the first with the shorter source and the longer target,
\* collated with distinct fill values
C5_Witness ==
    /\ out.status = "ok"
    /\ RealSelectors
    /\ Len(examples) = 2
    /\ pad_vals = <<7, 9>>
    /\ TShape(examples[1][1]) = <<1, 1>>
    /\ TShape(examples[2][1]) = <<1, 2>>
    /\ TShape(examples[1][2]) = <<2>>
    /\ TShape(examples[2][2]) = <<0>>
    /\ out.xs.v[1] = << <<11, 7>> >>
    /\ out.ys.v[2] = <<9, 9>>

\* a tensor collates: its unset selector meets examples of one size, or its
\* real selector examples that agree along the other axes
SideCollates(ts, sel) ==
    IF sel.none THEN SameShapes(ts) ELSE OtherAxesAgree(ts, sel)

\* C6: for the source and the target tensor alike, an unset (None) selector
\* has the tensor of every example stacked without padding, and the collation
\* succeeds when all examples already share that tensor's size.
C6_UnsetSelectorStacksUnpadded ==
    (/\ out.status # "none"
     /\ dims[1].none \/ dims[2].none
     /\ SideCollates(ExampleXs, dims[1])
     /\ SideCollates(ExampleYs, dims[2])) =>
        /\ out.status = "ok"
        /\ dims[1].none => out.xs = Stack(ExampleXs)
        /\ dims[2].none => out.ys = Stack(ExampleYs)

=============================================================================
